---- MODULE Spec2Model ----
(***************************************************************************)
(* Message relay pipeline of AWS_Terraform_Consumer_Producer.              *)
(*                                                                         *)
(*   Producer/app.py  receive_message : POST /message -> validate, enqueue *)
(*   Consumer/app.py  poll_queue      : receive, json.loads,               *)
(*                                      process_message (S3 put), delete   *)
(*                                                                         *)
(* The SQS queue and the S3 bucket are external services; they are         *)
(* modelled by the effect of the calls the two programs make on them.      *)
(***************************************************************************)
EXTENDS Integers, Sequences, FiniteSets, TLC

(***************************************************************************)
(* Bounds of the model.                                                    *)
(***************************************************************************)
\* number of messages ever put on the queue
MaxMsgs == 2
\* number of failed put and delete calls and of leases that expire while a
\* worker is still processing the batch
MaxFaults == 2
\* the same two bounds for the runs with several workers and for the runs
\* under fairness
SmallMsgs == 1
SmallFaults == 1

Workers == {"w1", "w2"}
MsgIds == 1..MaxMsgs
SmallIds == 1..SmallMsgs

(***************************************************************************)
(* Program constants.                                                      *)
(***************************************************************************)
MaxNumberOfMessages == 10
WaitTimeSeconds == 5
VisibilityTimeout == 30
IdleDelaySeconds == 15

(***************************************************************************)
(* Python values.  A value is a record [type, v, items]: v is the text of  *)
(* a scalar, items the members of a dict (in insertion order) or the       *)
(* elements of a list (with key "").                                       *)
(***************************************************************************)
PyNone == [type |-> "NoneType", v |-> "null", items |-> <<>>]
PyInt(s) == [type |-> "int", v |-> s, items |-> <<>>]
PyFloat(s) == [type |-> "float", v |-> s, items |-> <<>>]
PyStr(s) == [type |-> "str", v |-> s, items |-> <<>>]
PyBool(s) == [type |-> "bool", v |-> s, items |-> <<>>]
PyItem(k, x) == [key |-> k, val |-> x]
PyDict(its) == [type |-> "dict", v |-> "", items |-> its]
PyList(its) == [type |-> "list", v |-> "", items |-> its]

\* the result of an operation: exc = "" when it returns val, else the
\* exception it raises
Ret(x) == [exc |-> "", val |-> x]
Exc(e) == [exc |-> e, val |-> PyNone]

\* texts of numbers without fraction or exponent
IntLiterals == {"0", "1", "1700000000", "1678886400", "99999999999999999999"}

(***************************************************************************)
(* json.dumps: the text is a sequence of tokens [k, v].  Members of a dict *)
(* are written in insertion order, separated by commas.                    *)
(***************************************************************************)
Tok(kind, text) == [k |-> kind, v |-> text]

RECURSIVE json_dumps(_)
RECURSIVE DumpItems(_, _, _)
DumpItems(its, i, isDict) ==
    IF i > Len(its) THEN <<>>
    ELSE (IF i > 1 THEN <<Tok("punct", ",")>> ELSE <<>>)
         \o (IF isDict THEN <<Tok("string", its[i].key), Tok("punct", ":")>> ELSE <<>>)
         \o json_dumps(its[i].val)
         \o DumpItems(its, i + 1, isDict)

\* a serializer that writes every number as a string
json_dumps_quoted(x) ==
    CASE x.type = "dict" -> <<Tok("punct", "{")>> \o DumpItems(x.items, 1, TRUE) \o <<Tok("punct", "}")>>
      [] x.type = "list" -> <<Tok("punct", "[")>> \o DumpItems(x.items, 1, FALSE) \o <<Tok("punct", "]")>>
      [] x.type \in {"str", "int", "float"} -> <<Tok("string", x.v)>>
      [] OTHER -> <<Tok("literal", x.v)>>

json_dumps(x) ==
    CASE x.type = "dict" -> <<Tok("punct", "{")>> \o DumpItems(x.items, 1, TRUE) \o <<Tok("punct", "}")>>
      [] x.type = "list" -> <<Tok("punct", "[")>> \o DumpItems(x.items, 1, FALSE) \o <<Tok("punct", "]")>>
      [] x.type = "str" -> <<Tok("string", x.v)>>
      [] x.type \in {"int", "float"} -> <<Tok("number", x.v)>>
      [] OTHER -> <<Tok("literal", x.v)>>

(***************************************************************************)
(* json.loads: recursive descent over the tokens.  The result is           *)
(* [ok, val, next]; ok = FALSE is json.JSONDecodeError.  A later           *)
(* occurrence of a key replaces the value of the earlier one.              *)
(***************************************************************************)
ParseFail == [ok |-> FALSE, val |-> PyNone, next |-> 0]
ParseOk(x, n) == [ok |-> TRUE, val |-> x, next |-> n]

RECURSIVE SetItem(_, _, _, _)
SetItem(its, k, x, i) ==
    IF i > Len(its) THEN Append(its, PyItem(k, x))
    ELSE IF its[i].key = k THEN [its EXCEPT ![i] = PyItem(k, x)]
    ELSE SetItem(its, k, x, i + 1)

RECURSIVE ParseValue(_, _)
RECURSIVE ParseMembers(_, _, _)
RECURSIVE ParseElements(_, _, _)

\* after "{" or ",": "key" ":" value, then "," or "}"
ParseMembers(t, i, acc) ==
    IF i + 1 > Len(t) \/ t[i].k # "string" \/ t[i + 1] # Tok("punct", ":") THEN ParseFail
    ELSE LET r == ParseValue(t, i + 2) IN
         IF ~r.ok \/ r.next > Len(t) THEN ParseFail
         ELSE LET acc2 == SetItem(acc, t[i].v, r.val, 1) IN
              IF t[r.next] = Tok("punct", "}") THEN ParseOk(PyDict(acc2), r.next + 1)
              ELSE IF t[r.next] = Tok("punct", ",") THEN ParseMembers(t, r.next + 1, acc2)
              ELSE ParseFail

\* after "[" or ",": value, then "," or "]"
ParseElements(t, i, acc) ==
    LET r == ParseValue(t, i) IN
    IF ~r.ok \/ r.next > Len(t) THEN ParseFail
    ELSE LET acc2 == Append(acc, PyItem("", r.val)) IN
         IF t[r.next] = Tok("punct", "]") THEN ParseOk(PyList(acc2), r.next + 1)
         ELSE IF t[r.next] = Tok("punct", ",") THEN ParseElements(t, r.next + 1, acc2)
         ELSE ParseFail

ParseValue(t, i) ==
    IF i > Len(t) THEN ParseFail
    ELSE CASE t[i].k = "string" -> ParseOk(PyStr(t[i].v), i + 1)
           [] t[i].k = "number" ->
                ParseOk(IF t[i].v \in IntLiterals THEN PyInt(t[i].v) ELSE PyFloat(t[i].v), i + 1)
           [] t[i].k = "literal" ->
                IF t[i].v = "null" THEN ParseOk(PyNone, i + 1)
                ELSE IF t[i].v \in {"true", "false"} THEN ParseOk(PyBool(t[i].v), i + 1)
                ELSE ParseFail
           [] t[i] = Tok("punct", "{") ->
                IF i + 1 <= Len(t) /\ t[i + 1] = Tok("punct", "}") THEN ParseOk(PyDict(<<>>), i + 2)
                ELSE ParseMembers(t, i + 1, <<>>)
           [] t[i] = Tok("punct", "[") ->
                IF i + 1 <= Len(t) /\ t[i + 1] = Tok("punct", "]") THEN ParseOk(PyList(<<>>), i + 2)
                ELSE ParseElements(t, i + 1, <<>>)
           [] OTHER -> ParseFail

\* a json.loads that returns None for a text that is not JSON
json_loads_lenient(t) ==
    LET r == ParseValue(t, 1) IN
    IF r.ok /\ r.next = Len(t) + 1 THEN [ok |-> TRUE, val |-> r.val]
    ELSE [ok |-> TRUE, val |-> PyNone]

\* the whole text must be one value
json_loads(t) ==
    LET r == ParseValue(t, 1) IN
    IF r.ok /\ r.next = Len(t) + 1 THEN [ok |-> TRUE, val |-> r.val]
    ELSE [ok |-> FALSE, val |-> PyNone]


(***************************************************************************)
(* State.                                                                  *)
(***************************************************************************)
VARIABLES
    queue,      \* SQS: message id -> [status, Body, handle, src]
    store,      \* S3 bucket: key -> [m, Body]
    now,        \* wall clock read by datetime.utcnow()
    faults,     \* failed puts, failed deletes and early lease expiries so far
    pc,         \* worker -> position in poll_queue
    messages,   \* worker -> batch of the current iteration
    idx,        \* worker -> index of msg in messages
    s3_key,     \* worker -> key computed by process_message
    calls,      \* worker -> put / delete calls of the current iteration
    acked,      \* message id -> number of acknowledged puts
    delFailed,  \* message id -> a delete after an acknowledged put failed
    rcv,        \* message id -> it has been received more than once
    http,       \* last request handled by POST /message and its outcome
    limits,     \* [msgs, faults]: the bounds of this run
    env,        \* [consumer, producer]: the environment variables that are set
    app,        \* the ingress process: "startup" or "serving"
    SQS_MESSAGES_SENT,          \* Counter sqs_messages_sent_total
    UNAUTHORIZED_ACCESS_COUNT   \* Counter unauthorized_access_total

vars == <<queue, store, now, faults, pc, messages, idx, s3_key, calls,
          acked, delFailed, rcv, http, limits, env, app,
          SQS_MESSAGES_SENT, UNAUTHORIZED_ACCESS_COUNT>>
consumerVars == <<pc, messages, idx, s3_key, calls>>
ingressVars == <<env, app, SQS_MESSAGES_SENT, UNAUTHORIZED_ACCESS_COUNT>>
ghostVars == <<acked, delFailed, rcv>>

Min(a, b) == IF a < b THEN a ELSE b
Max(a, b) == IF a > b THEN a ELSE b

(***************************************************************************)
(* The queue service.                                                      *)
(***************************************************************************)
NoMessage == [status |-> "none", Body |-> <<>>, handle |-> 0, src |-> "none"]
NoHandle == <<0, 0>>

InQueue(m) == queue[m].status \in {"visible", "inflight"}
Visible == {m \in MsgIds : queue[m].status = "visible"}

\* send_message: the body becomes a new visible message
FreeIds == {m \in MsgIds : queue[m].status = "none" /\ m <= limits.msgs}
NewId == CHOOSE m \in FreeIds : \A k \in FreeIds : m <= k
Enqueue(q, m, text, from) ==
    [q EXCEPT ![m] = [status |-> "visible", Body |-> text, handle |-> 0, src |-> from]]

\* receipt handles are opaque: a receive hands out a handle that no other
\* worker still holds for that message
HeldBy(w, m) == {messages[w][i].ReceiptHandle[2] :
                    i \in {j \in 1..Len(messages[w]) : messages[w][j].ReceiptHandle[1] = m}}
FreshHandle(w, m) ==
    LET used == UNION {HeldBy(o, m) : o \in Workers \ {w}}
        free == (1..Cardinality(Workers)) \ used
    IN CHOOSE h \in free : \A k \in free : h <= k

\* batches receive_message may return: distinct visible messages, in any
\* order, at most MaxNumberOfMessages of them
Batches ==
    UNION {{b \in [1..n -> Visible] : \A i, j \in 1..n : b[i] = b[j] => i = j} :
              n \in 0..Min(Cardinality(Visible), MaxNumberOfMessages)}

\* receive_message(VisibilityTimeout): the returned messages are leased
Lease(q, w, b) ==
    [m \in MsgIds |->
        IF \E i \in 1..Len(b) : b[i] = m
        THEN [q[m] EXCEPT !.status = "inflight", !.handle = FreshHandle(w, m)]
        ELSE q[m]]
Response(w, b) ==
    [Messages |-> [i \in 1..Len(b) |->
        [Body |-> queue[b[i]].Body, ReceiptHandle |-> <<b[i], FreshHandle(w, b[i])>>]]]
\* SQS leaves the Messages key out of an empty response
EmptyResponse == [ResponseMetadata |-> "200"]

\* delete_message: removes the message when the handle is its latest one;
\* with an older handle the request succeeds and removes nothing
DeleteMessage(q, h) ==
    IF h[1] \in MsgIds /\ q[h[1]].status \in {"visible", "inflight"} /\ q[h[1]].handle = h[2]
    THEN [q EXCEPT ![h[1]].status = "deleted"]
    ELSE q

\* put_object: writes (or overwrites) the object under the key
PutObject(s, key, m, text) ==
    [k \in DOMAIN s \cup {key} |-> IF k = key THEN [m |-> m, Body |-> text] ELSE s[k]]

(***************************************************************************)
(* Consumer/app.py                                                         *)
(***************************************************************************)
BotoErrors == {"BotoCoreError", "ClientError"}

\* an inner handler that catches only the failure of json.loads
InnerExceptJsonOnly(exc) == exc = "JSONDecodeError"
\* line 58: except Exception
InnerExcept(exc) ==
    exc \in {"JSONDecodeError", "KeyError", "BotoCoreError", "ClientError", "Exception"}
\* an outer handler that catches only ClientError
OuterExceptClientOnly(exc) == exc = "ClientError"
\* line 61: except (BotoCoreError, ClientError)
OuterExcept(exc) == exc \in BotoErrors
\* process_message without the raise of line 34: the failure is only logged
ReraiseSwallowed(exc) == IF exc \in BotoErrors THEN "" ELSE exc
\* lines 32-34: except (BotoCoreError, ClientError): log, raise; any other
\* exception of put_object passes through
Reraise(exc) == exc

\* response["Messages"] in place of response.get("Messages", [])
ResponseIndex(response) ==
    IF "Messages" \in DOMAIN response THEN Ret(response.Messages) ELSE Exc("KeyError")
\* line 48: response.get("Messages", [])
ResponseGet(response) ==
    IF "Messages" \in DOMAIN response THEN Ret(response.Messages) ELSE Ret(<<>>)

\* a loop that goes through the batch from its end
msgReversed(w) == messages[w][Len(messages[w]) + 1 - idx[w]]
\* line 52: msg
msg(w) == messages[w][idx[w]]
\* the handle of the message after msg, when there is one
ReceiptHandleOfNext(w) == messages[w][Min(idx[w] + 1, Len(messages[w]))].ReceiptHandle
\* the handle of the first message of the batch
ReceiptHandleOfFirst(w) == messages[w][1].ReceiptHandle
\* line 56: msg["ReceiptHandle"]
ReceiptHandle(w) == msg(w).ReceiptHandle
\* line 54: body = json.loads(msg["Body"])
body(w) == json_loads(msg(w).Body).val

\* a call made in the current iteration: receive_message (n messages
\* returned), json.loads, put_object, delete_message; exc is the exception
\* it raised, "" when it returned
Call(o, a, h, x, k, e) ==
    [op |-> o, args |-> a, handle |-> h, body |-> x, key |-> k, exc |-> e]
ReceiveCall(n, e) ==
    Call("receive", <<MaxNumberOfMessages, WaitTimeSeconds, VisibilityTimeout, n>>,
         NoHandle, PyNone, 0, e)
Ok(c) == c.exc = ""
Logged(w, c) == calls' = [calls EXCEPT ![w] = Append(@, c)]

\* line 52: the for loop goes on with the next message, or ends and falls
\* to the sleep of line 64
Continue(w) ==
    IF idx[w] < Len(messages[w])
    THEN /\ idx' = [idx EXCEPT ![w] = idx[w] + 1]
         /\ pc' = [pc EXCEPT ![w] = "loads"]
    ELSE /\ idx' = idx
         /\ pc' = [pc EXCEPT ![w] = "sleep"]

\* an exception raised in the body of the for loop (lines 54-57)
Raise(w, exc) ==
    IF InnerExcept(exc) THEN Continue(w)
    ELSE /\ idx' = idx
         /\ pc' = [pc EXCEPT ![w] = IF OuterExcept(exc) THEN "sleep" ELSE "crashed"]

\* lines 41-50: receive_message returns a response
ReceiveOk(w, b, withKey) ==
    /\ pc[w] = "receive"
    /\ b \in Batches
    /\ withKey \/ b = <<>>
    /\ LET response == IF withKey THEN Response(w, b) ELSE EmptyResponse
           got == ResponseGet(response)
       IN IF got.exc # ""
          THEN /\ pc' = [pc EXCEPT ![w] = IF OuterExcept(got.exc) THEN "sleep" ELSE "crashed"]
               /\ UNCHANGED <<messages, idx>>
          ELSE /\ messages' = [messages EXCEPT ![w] = got.val]
               /\ idx' = [idx EXCEPT ![w] = IF got.val = <<>> THEN 0 ELSE 1]
               /\ pc' = [pc EXCEPT ![w] = IF got.val = <<>> THEN "sleep" ELSE "loads"]
    /\ queue' = Lease(queue, w, b)
    /\ calls' = [calls EXCEPT ![w] = <<ReceiveCall(Len(b), "")>>]
    /\ rcv' = [m \in MsgIds |->
                 IF \E i \in 1..Len(b) : b[i] = m THEN queue[m].handle # 0 ELSE rcv[m]]
    /\ UNCHANGED <<store, now, faults, s3_key, acked, delFailed, http, limits, ingressVars>>

\* lines 41-46, 61-62: receive_message raises
ReceiveFail(w, exc) ==
    /\ pc[w] = "receive"
    /\ exc \in BotoErrors
    /\ pc' = [pc EXCEPT ![w] = IF OuterExcept(exc) THEN "sleep" ELSE "crashed"]
    /\ calls' = [calls EXCEPT ![w] = <<ReceiveCall(0, exc)>>]
    /\ UNCHANGED <<queue, store, now, faults, messages, idx, s3_key, ghostVars, http, limits, ingressVars>>

\* line 54: json.loads(msg["Body"])
Loads(w) ==
    /\ pc[w] = "loads"
    /\ LET r == json_loads(msg(w).Body) IN
       /\ Logged(w, Call("loads", <<>>, msg(w).ReceiptHandle, r.val, 0,
                        IF r.ok THEN "" ELSE "JSONDecodeError"))
       /\ IF r.ok
          THEN /\ pc' = [pc EXCEPT ![w] = "utcnow"]
               /\ idx' = idx
          ELSE Raise(w, "JSONDecodeError")
    /\ UNCHANGED <<queue, store, now, faults, messages, s3_key, ghostVars, http, limits, ingressVars>>

\* a key derived from the message in place of the clock
KeyOfMessage(w, t) == msg(w).ReceiptHandle[1]
\* lines 27-28: timestamp = datetime.utcnow(), with microseconds;
\* s3_key = f"messages/message-{timestamp}.json"
Key(w, t) == t

\* lines 27-28: the key is the wall clock at the moment of processing
UtcNow(w) ==
    /\ pc[w] = "utcnow"
    /\ s3_key' = [s3_key EXCEPT ![w] = Key(w, now)]
    /\ pc' = [pc EXCEPT ![w] = "put"]
    /\ UNCHANGED <<queue, store, now, faults, messages, idx, calls, ghostVars, http, limits, ingressVars>>

\* the clock moves on between the reading of a worker and the reading of
\* another one (a tick at any other moment changes no key)
Tick ==
    /\ \E w \in Workers : pc[w] = "put" /\ s3_key[w] = now
    /\ \E w \in Workers : pc[w] = "utcnow"
    /\ now' = now + 1
    /\ UNCHANGED <<queue, store, faults, consumerVars, ghostVars, http, limits, ingressVars>>

\* lines 30-31: put_object succeeds; the round trip has taken time
PutOk(w) ==
    /\ pc[w] = "put"
    /\ store' = PutObject(store, s3_key[w], msg(w).ReceiptHandle[1], json_dumps(body(w)))
    /\ now' = Max(now, s3_key[w] + 1)
    /\ Logged(w, Call("put", <<>>, msg(w).ReceiptHandle, body(w), s3_key[w], ""))
    /\ acked' = [acked EXCEPT ![msg(w).ReceiptHandle[1]] = @ + 1]
    /\ s3_key' = [s3_key EXCEPT ![w] = 0]
    /\ pc' = [pc EXCEPT ![w] = "delete"]
    /\ UNCHANGED <<queue, faults, messages, idx, delFailed, rcv, http, limits, ingressVars>>

\* lines 30, 32-34: put_object raises
PutFail(w, exc) ==
    /\ pc[w] = "put"
    /\ exc \in BotoErrors \cup {"Exception"}
    /\ faults < limits.faults
    /\ faults' = faults + 1
    /\ Logged(w, Call("put", <<>>, msg(w).ReceiptHandle, body(w), s3_key[w], exc))
    /\ s3_key' = [s3_key EXCEPT ![w] = 0]
    /\ IF Reraise(exc) = ""
       THEN /\ pc' = [pc EXCEPT ![w] = "delete"]
            /\ idx' = idx
       ELSE Raise(w, Reraise(exc))
    /\ UNCHANGED <<queue, store, now, messages, ghostVars, http, limits, ingressVars>>

\* lines 56-57: delete_message succeeds
DeleteOk(w) ==
    /\ pc[w] = "delete"
    /\ queue' = DeleteMessage(queue, ReceiptHandle(w))
    /\ Logged(w, Call("delete", <<>>, ReceiptHandle(w), PyNone, 0, ""))
    /\ Continue(w)
    /\ UNCHANGED <<store, now, faults, messages, s3_key, ghostVars, http, limits, ingressVars>>

\* lines 56, 58-59: delete_message raises
DeleteFail(w, exc) ==
    /\ pc[w] = "delete"
    /\ exc \in BotoErrors
    /\ faults < limits.faults
    /\ faults' = faults + 1
    /\ Logged(w, Call("delete", <<>>, ReceiptHandle(w), PyNone, 0, exc))
    /\ delFailed' = [delFailed EXCEPT ![msg(w).ReceiptHandle[1]] = TRUE]
    /\ Raise(w, exc)
    /\ UNCHANGED <<queue, store, now, messages, s3_key, acked, rcv, http, limits, ingressVars>>

\* line 64: time.sleep(15), then the next iteration of while True
Sleep(w) ==
    /\ pc[w] = "sleep"
    /\ pc' = [pc EXCEPT ![w] = "receive"]
    /\ messages' = [messages EXCEPT ![w] = <<>>]
    /\ idx' = [idx EXCEPT ![w] = 0]
    /\ calls' = [calls EXCEPT ![w] = <<>>]
    /\ UNCHANGED <<queue, store, now, faults, s3_key, ghostVars, http, limits, ingressVars>>

(***************************************************************************)
(* Environment of the consumer.                                            *)
(***************************************************************************)
\* a worker is still working on the batch that holds m
Pending(w, m) ==
    /\ pc[w] \in {"loads", "utcnow", "put", "delete"}
    /\ \E i \in idx[w]..Len(messages[w]) : messages[w][i].ReceiptHandle[1] = m

\* the lease of m runs out (VisibilityTimeout): m is receivable again.
\* A lease that runs out under a worker that is still busy with the batch
\* counts as a fault.
Expire(m) ==
    /\ queue[m].status = "inflight"
    /\ queue' = [queue EXCEPT ![m].status = "visible"]
    /\ IF \E w \in Workers : Pending(w, m)
       THEN faults < limits.faults /\ faults' = faults + 1
       ELSE faults' = faults
    /\ UNCHANGED <<store, now, consumerVars, ghostVars, http, limits, ingressVars>>

\* the process of worker w stops while it holds messages it has received
\* and not deleted: what it held in memory is gone, the queue and the store
\* are as it left them. A stop counts as a fault.
Crash(w) ==
    /\ pc[w] \in {"loads", "utcnow", "put", "delete"}
    /\ faults < limits.faults
    /\ faults' = faults + 1
    /\ pc' = [pc EXCEPT ![w] = "stopped"]
    /\ messages' = [messages EXCEPT ![w] = <<>>]
    /\ idx' = [idx EXCEPT ![w] = 0]
    /\ s3_key' = [s3_key EXCEPT ![w] = 0]
    /\ calls' = [calls EXCEPT ![w] = <<>>]
    /\ UNCHANGED <<queue, store, now, ghostVars, http, limits, ingressVars>>

\* the process is started again and enters poll_queue
Restart(w) ==
    /\ pc[w] = "stopped"
    /\ pc' = [pc EXCEPT ![w] = "receive"]
    /\ UNCHANGED <<queue, store, now, faults, messages, idx, s3_key, calls, ghostVars,
                   http, limits, ingressVars>>

\* bodies that are not JSON
MalformedBodies == {<<Tok("punct", "{"), Tok("string", "email_subject")>>}

\* another producer of the queue sends a body that is not JSON
ForeignSend(text) ==
    /\ FreeIds # {}
    /\ text \in MalformedBodies
    /\ queue' = Enqueue(queue, NewId, text, "foreign")
    /\ UNCHANGED <<store, now, faults, consumerVars, ghostVars, http, limits, ingressVars>>


(***************************************************************************)
(* Producer/app.py: Python operations used by receive_message.             *)
(***************************************************************************)
\* the token fetched from SSM at startup
AUTH_TOKEN == PyStr("$DJ!S4K#5ke3RkY=")

\* bool(x)
Truthy(x) ==
    CASE x.type = "NoneType" -> FALSE
      [] x.type = "bool" -> x.v = "true"
      [] x.type \in {"int", "float"} -> x.v \notin {"0", "0.0"}
      [] x.type = "str" -> x.v # ""
      [] OTHER -> x.items # <<>>

\* substrings of the strings of the model
StrContains(s, sub) ==
    \/ s = sub
    \/ <<s, sub>> \in {<<"data token", "data">>, <<"data token", "token">>,
                       <<"my data", "data">>, <<"no email_timestamp", "email_timestamp">>}

\* k in x
Contains(x, k) ==
    CASE x.type = "dict" -> Ret(\E i \in 1..Len(x.items) : x.items[i].key = k)
      [] x.type = "list" -> Ret(\E i \in 1..Len(x.items) : x.items[i].val = PyStr(k))
      [] x.type = "str" -> Ret(StrContains(x.v, k))
      [] OTHER -> Exc("TypeError")

\* x[k]
GetItem(x, k) ==
    IF x.type = "dict"
    THEN IF \E i \in 1..Len(x.items) : x.items[i].key = k
         THEN Ret(x.items[CHOOSE i \in 1..Len(x.items) : x.items[i].key = k].val)
         ELSE Exc("KeyError")
    ELSE Exc("TypeError")

\* int(x) of a float: the integer part
Truncated == [s \in {"1.5", "0.0"} |-> IF s = "1.5" THEN "1" ELSE "0"]

\* int(x)
int(x) ==
    CASE x.type = "int" -> Ret(x)
      [] x.type = "bool" -> Ret(PyInt(IF x.v = "true" THEN "1" ELSE "0"))
      [] x.type = "float" ->
            IF x.v \in DOMAIN Truncated THEN Ret(PyInt(Truncated[x.v]))
            ELSE IF x.v = "NaN" THEN Exc("ValueError") ELSE Exc("OverflowError")
      [] x.type = "str" -> IF x.v \in IntLiterals THEN Ret(PyInt(x.v)) ELSE Exc("ValueError")
      [] OTHER -> Exc("TypeError")

\* datetime.fromtimestamp(n): beyond year 9999 it raises ValueError, beyond
\* the range of time_t OverflowError
fromtimestamp(n) ==
    CASE n.v = "99999999999999999999" -> Exc("OverflowError")
      [] n.v = "999999999999" -> Exc("ValueError")
      [] OTHER -> Ret(n)

Resp(code, k, t) == [code |-> code, key |-> k, text |-> t]
NoResp == Resp(0, "", "")

\* request.get_json(): the parsed body, or BadRequest when the body is not JSON
get_json(req) == IF req.ok THEN Ret(req.json) ELSE Exc("BadRequest")

\* lines 45-63: the checks before the send.  The result is the response
\* of a return statement, the exception that reaches line 73, or
\* [send |-> message_data] when line 66 is reached.
Return(r) == [kind |-> "return", resp |-> r, exc |-> "", data |-> PyNone]
Raised(e) == [kind |-> "raise", resp |-> NoResp, exc |-> e, data |-> PyNone]
Send(x) == [kind |-> "send", resp |-> NoResp, exc |-> "", data |-> x]

\* a check that lets an empty token through
TokenOkOrEmpty(token) == token = AUTH_TOKEN \/ ~Truthy(token)
\* line 53: token != AUTH_TOKEN
TokenOk(token) == token = AUTH_TOKEN

\* the same checks, sending the data with the timestamp converted by int()
CheckTimestampConverted(message_data) ==
    LET item == GetItem(message_data, "email_timestamp")
        timestamp == IF item.exc = "" THEN int(item.val) ELSE item
        checked == IF timestamp.exc = "" THEN fromtimestamp(timestamp.val) ELSE timestamp
    IN IF checked.exc = ""
       THEN Send([message_data EXCEPT
                    !.items = SetItem(@, "email_timestamp", timestamp.val, 1)])
       ELSE IF checked.exc = "ValueError" THEN Return(Resp(400, "error", "Invalid email_timestamp"))
       ELSE Raised(checked.exc)
\* lines 59-63
CheckTimestamp(message_data) ==
    LET item == GetItem(message_data, "email_timestamp")
        timestamp == IF item.exc = "" THEN int(item.val) ELSE item
        checked == IF timestamp.exc = "" THEN fromtimestamp(timestamp.val) ELSE timestamp
    IN IF checked.exc = "" THEN Send(message_data)
       ELSE IF checked.exc = "ValueError" THEN Return(Resp(400, "error", "Invalid email_timestamp"))
       ELSE Raised(checked.exc)

\* the same checks with the presence of the timestamp tested before the token
CheckPresenceFirst(data) ==
    LET token == GetItem(data, "token")
        message_data == GetItem(data, "data")
    IN IF token.exc # "" THEN Raised(token.exc)
       ELSE IF message_data.exc # "" THEN Raised(message_data.exc)
       ELSE LET has == Contains(message_data.val, "email_timestamp") IN
            IF has.exc # "" THEN Raised(has.exc)
            ELSE IF ~has.val THEN Return(Resp(400, "error", "Missing email_timestamp"))
            ELSE IF ~TokenOk(token.val) THEN Return(Resp(401, "error", "Unauthorized"))
            ELSE CheckTimestamp(message_data.val)
\* lines 49-58
CheckToken(data) ==
    LET token == GetItem(data, "token")
        message_data == GetItem(data, "data")
    IN IF token.exc # "" THEN Raised(token.exc)
       ELSE IF message_data.exc # "" THEN Raised(message_data.exc)
       ELSE IF ~TokenOk(token.val) THEN Return(Resp(401, "error", "Unauthorized"))
       ELSE LET has == Contains(message_data.val, "email_timestamp") IN
            IF has.exc # "" THEN Raised(has.exc)
            ELSE IF ~has.val THEN Return(Resp(400, "error", "Missing email_timestamp"))
            ELSE CheckTimestamp(message_data.val)

\* lines 45-47
Validate(req) ==
    LET data == get_json(req) IN
    IF data.exc # "" THEN Raised(data.exc)
    ELSE IF ~Truthy(data.val) THEN Return(Resp(400, "error", "Invalid request format"))
    ELSE LET hasData == Contains(data.val, "data") IN
         IF hasData.exc # "" THEN Raised(hasData.exc)
         ELSE IF ~hasData.val THEN Return(Resp(400, "error", "Invalid request format"))
         ELSE LET hasToken == Contains(data.val, "token") IN
              IF hasToken.exc # "" THEN Raised(hasToken.exc)
              ELSE IF ~hasToken.val THEN Return(Resp(400, "error", "Invalid request format"))
              ELSE CheckToken(data.val)

\* a handler that catches the failures of the send only: any other
\* exception leaves the view function without a response of its own
HandlerOfSendOnly(e) == IF e \in BotoErrors THEN Resp(500, "error", e) ELSE NoResp
\* a handler that hides the text of the exception
HandlerGeneric(e) == Resp(500, "error", "Internal Server Error")
\* a handler that answers as if the message had been sent
HandlerSent(e) == Resp(200, "status", "Message sent to SQS")
\* lines 73-74: except Exception as e
Handler(e) == Resp(500, "error", e)

Http(req, r, n, text) == [req |-> req, resp |-> r, sends |-> n, sent |-> text]

\* os.getenv(name) in an environment e, None when the variable is not set
getenv(e, name) == IF name \in e THEN PyStr(name) ELSE PyNone
ConsumerEnv == {"SQS_QUEUE_URL", "S3_BUCKET_NAME"}
ProducerEnv == {"SQS_QUEUE_URL"}
FullEnv == [consumer |-> ConsumerEnv, producer |-> ProducerEnv]
Envs == [consumer : SUBSET ConsumerEnv, producer : SUBSET ProducerEnv]

\* line 15
SQS_QUEUE_URL == getenv(env.producer, "SQS_QUEUE_URL")

\* lines 66-69: the exception raised by sqs.send_message, "" when it
\* returns; boto3 validates the parameters before any request is made
send_message(QueueUrl, sendExc) ==
    IF QueueUrl.type = "str" THEN sendExc ELSE "ParamValidationError"

\* lines 42-74: POST /message.  sendExc is the outcome of the request to
\* SQS, "" for success.
receive_message(req, sendExc) ==
    /\ app = "serving"
    /\ FreeIds # {}
    /\ LET v == Validate(req) IN
       CASE v.kind = "return" ->
                /\ sendExc = ""
                /\ http' = Http(req, v.resp, 0, <<>>)
                /\ queue' = queue
         [] v.kind = "raise" ->
                /\ sendExc = ""
                /\ http' = Http(req, Handler(v.exc), 0, <<>>)
                /\ queue' = queue
         [] v.kind = "send" ->
                LET MessageBody == json_dumps(v.data)
                    raised == send_message(SQS_QUEUE_URL, sendExc)
                IN
                /\ SQS_QUEUE_URL.type # "str" => sendExc = ""
                /\ IF raised = ""
                   THEN /\ queue' = Enqueue(queue, NewId, MessageBody, "ingress")
                        /\ http' = Http(req, Resp(200, "status", "Message sent to SQS"), 1, MessageBody)
                   ELSE /\ queue' = queue
                        /\ http' = Http(req, Handler(raised), 1, MessageBody)
    /\ UNCHANGED <<SQS_MESSAGES_SENT, UNAUTHORIZED_ACCESS_COUNT>>
    /\ UNCHANGED <<store, now, faults, consumerVars, ghostVars, limits, env, app>>

\* Producer lines 8-15: the module creates the clients and reads the token
\* and the queue URL, with no check of the URL; then the app serves
ProducerStartup ==
    /\ app = "startup"
    /\ app' = "serving"
    /\ UNCHANGED <<queue, store, now, faults, consumerVars, ghostVars, http, limits, env,
                   SQS_MESSAGES_SENT, UNAUTHORIZED_ACCESS_COUNT>>

\* Consumer lines 13-19: exit(1) when SQS_QUEUE_URL or S3_BUCKET_NAME is
\* missing, poll_queue() otherwise
ConsumerStartup(w) ==
    /\ pc[w] = "startup"
    /\ pc' = [pc EXCEPT ![w] =
                IF \/ ~Truthy(getenv(env.consumer, "SQS_QUEUE_URL"))
                   \/ ~Truthy(getenv(env.consumer, "S3_BUCKET_NAME"))
                THEN "exited" ELSE "receive"]
    /\ UNCHANGED <<queue, store, now, faults, messages, idx, s3_key, calls, ghostVars,
                   http, limits, ingressVars>>

(***************************************************************************)
(* Requests.                                                               *)
(***************************************************************************)
Json(x) == [ok |-> TRUE, json |-> x]
NotJson == [ok |-> FALSE, json |-> PyNone]
Submission(token, data) == PyDict(<<PyItem("token", token), PyItem("data", data)>>)

Subject == PyItem("email_subject", PyStr("S"))
Stamp(x) == PyItem("email_timestamp", x)

Tokens == {AUTH_TOKEN, PyStr("wrong"), PyStr(""), PyNone, PyInt("1")}

Datas == {
    PyDict(<<Subject, Stamp(PyInt("1700000000"))>>),
    PyDict(<<Stamp(PyInt("1700000000")), Subject>>),
    PyDict(<<Stamp(PyStr("1700000000"))>>),
    PyDict(<<Stamp(PyStr("1700000000")), Subject>>),
    PyDict(<<Subject>>),
    PyDict(<<>>),
    PyDict(<<Stamp(PyStr("abc"))>>),
    PyDict(<<Stamp(PyFloat("1.5"))>>),
    PyDict(<<Stamp(PyNone)>>),
    PyDict(<<Stamp(PyList(<<>>))>>),
    PyDict(<<Stamp(PyInt("999999999999"))>>),
    PyDict(<<Stamp(PyInt("99999999999999999999"))>>),
    PyNone,
    PyInt("1"),
    PyStr("my data"),
    PyStr("no email_timestamp"),
    PyList(<<PyItem("", PyStr("email_timestamp"))>>) }

Requests ==
    {Json(Submission(t, d)) : t \in Tokens, d \in Datas}
    \cup {Json(PyDict(<<PyItem("token", t)>>)) : t \in Tokens}
    \cup {Json(PyDict(<<PyItem("data", d)>>)) : d \in Datas}
    \cup {Json(x) : x \in {PyDict(<<>>), PyNone, PyInt("1"), PyList(<<>>), PyStr("my data"),
                          PyStr("data token"),
                          PyList(<<PyItem("", PyStr("data")), PyItem("", PyStr("token"))>>)}}
    \cup {NotJson}

\* the request of the relay
RelayRequests ==
    {Json(Submission(AUTH_TOKEN, PyDict(<<Subject, Stamp(PyInt("1700000000"))>>)))}

SendErrors == {"", "ClientError"}

(***************************************************************************)
(* Specifications.                                                         *)
(***************************************************************************)
Start(maxMsgs, maxFaults) ==
    /\ limits = [msgs |-> maxMsgs, faults |-> maxFaults]
    /\ env = FullEnv
    /\ app = "serving"
    /\ SQS_MESSAGES_SENT = 0
    /\ UNAUTHORIZED_ACCESS_COUNT = 0
    /\ queue = [m \in MsgIds |-> NoMessage]
    /\ store = <<>>
    /\ now = 1
    /\ faults = 0
    /\ pc = [w \in Workers |-> "receive"]
    /\ messages = [w \in Workers |-> <<>>]
    /\ idx = [w \in Workers |-> 0]
    /\ s3_key = [w \in Workers |-> 0]
    /\ calls = [w \in Workers |-> <<>>]
    /\ acked = [m \in MsgIds |-> 0]
    /\ delFailed = [m \in MsgIds |-> FALSE]
    /\ rcv = [m \in MsgIds |-> FALSE]
    /\ http = Http(NotJson, NoResp, 0, <<>>)

\* one step of worker w
Receive(w) ==
    \/ \E b \in Batches, withKey \in BOOLEAN : ReceiveOk(w, b, withKey)
    \/ \E exc \in BotoErrors : ReceiveFail(w, exc)
Put(w) ==
    \/ PutOk(w)
    \/ \E exc \in BotoErrors \cup {"Exception"} : PutFail(w, exc)
Delete(w) ==
    \/ DeleteOk(w)
    \/ \E exc \in BotoErrors : DeleteFail(w, exc)
poll_queue(w) ==
    \/ Receive(w)
    \/ Loads(w)
    \/ UtcNow(w)
    \/ Put(w)
    \/ Delete(w)
    \/ Sleep(w)

Ingress(R, E) == \E req \in R, sendExc \in E : receive_message(req, sendExc)
Expiry == \E m \in MsgIds : Expire(m)
Foreign == \E text \in MalformedBodies : ForeignSend(text)

Init == Start(MaxMsgs, MaxFaults)
InitSmall == Start(SmallMsgs, SmallFaults)

\* one consumer (the single sequential worker), the ingress and the queue
Next ==
    \/ Ingress(RelayRequests, {""})
    \/ Foreign
    \/ Expiry
    \/ poll_queue("w1")
Spec == Init /\ [][Next]_vars

\* the consumer keeps running, leases run out, and a receive returns a
\* message that stays receivable
Returned(w, m) ==
    \E b \in Batches : (\E i \in 1..Len(b) : b[i] = m) /\ ReceiveOk(w, b, TRUE)
Fairness ==
    /\ WF_vars(poll_queue("w1"))
    /\ \A m \in SmallIds : WF_vars(Expire(m))
    /\ \A m \in SmallIds : SF_vars(Returned("w1", m))
LiveSpec == InitSmall /\ [][Next]_vars /\ Fairness

\* several consumers on the same queue
NextWorkers ==
    \/ Ingress(RelayRequests, {""})
    \/ Foreign
    \/ Expiry
    \/ Tick
    \/ \E w \in Workers : poll_queue(w)
SpecWorkers == InitSmall /\ [][NextWorkers]_vars

\* the requests the ingress accepts
AcceptedRequests == {req \in Requests : Validate(req).kind = "send"}

\* the relay from the ingress to the store, over all accepted requests
NextRelay ==
    \/ Ingress(AcceptedRequests, {""})
    \/ poll_queue("w1")
SpecRelay == InitSmall /\ [][NextRelay]_vars

\* both processes from their start, in every environment
InitStartup ==
    /\ limits = [msgs |-> SmallMsgs, faults |-> SmallFaults]
    /\ env \in Envs
    /\ app = "startup"
    /\ SQS_MESSAGES_SENT = 0
    /\ UNAUTHORIZED_ACCESS_COUNT = 0
    /\ queue = [m \in MsgIds |-> NoMessage]
    /\ store = <<>>
    /\ now = 1
    /\ faults = 0
    /\ pc = [w \in Workers |-> "startup"]
    /\ messages = [w \in Workers |-> <<>>]
    /\ idx = [w \in Workers |-> 0]
    /\ s3_key = [w \in Workers |-> 0]
    /\ calls = [w \in Workers |-> <<>>]
    /\ acked = [m \in MsgIds |-> 0]
    /\ delFailed = [m \in MsgIds |-> FALSE]
    /\ rcv = [m \in MsgIds |-> FALSE]
    /\ http = Http(NotJson, NoResp, 0, <<>>)
NextStartup ==
    \/ ProducerStartup
    \/ ConsumerStartup("w1")
    \/ Ingress(RelayRequests, SendErrors)
    \/ Foreign
    \/ Expiry
    \/ poll_queue("w1")
SpecStartup == InitStartup /\ [][NextStartup]_vars

\* one consumer on batches of several messages, leases not running out
NextBatch ==
    \/ Ingress(RelayRequests, {""})
    \/ Foreign
    \/ poll_queue("w1")
SpecBatch == Init /\ [][NextBatch]_vars

\* one consumer whose calls all succeed and whose leases outlast the
\* processing of a batch, on a queue that also gets bodies that are not JSON
Work(w) ==
    \/ \E b \in Batches : ReceiveOk(w, b, TRUE)
    \/ Loads(w)
    \/ UtcNow(w)
    \/ PutOk(w)
    \/ DeleteOk(w)
    \/ Sleep(w)
NextPoison ==
    \/ Ingress(RelayRequests, {""})
    \/ Foreign
    \/ Expiry
    \/ Work("w1")
FairPoison ==
    /\ WF_vars(Work("w1"))
    /\ \A m \in MsgIds : WF_vars(Expire(m))
    /\ \A m \in MsgIds : SF_vars(Returned("w1", m))
SpecPoison == Start(MaxMsgs, 0) /\ [][NextPoison]_vars /\ FairPoison

\* several consumers that stop and are started again
NextCrash ==
    \/ Ingress(RelayRequests, {""})
    \/ Expiry
    \/ \E w \in Workers : poll_queue(w)
    \/ \E w \in Workers : Crash(w)
    \/ \E w \in Workers : Restart(w)
SpecCrash == InitSmall /\ [][NextCrash]_vars

\* the ingress alone, over all requests
NextIngress == Ingress(Requests, SendErrors)
SpecIngress == Init /\ [][NextIngress]_vars


(***************************************************************************)
(* Properties.                                                             *)
(***************************************************************************)
Last(s) == s[Len(s)]
Deleted(m) == queue[m].status = "deleted"
Malformed(m) == queue[m].status # "none" /\ queue[m].Body \in MalformedBodies
Artifacts(m) == {k \in DOMAIN store : store[k].m = m}
DeleteCalls(w) == {i \in 1..Len(calls[w]) : calls[w][i].op = "delete"}
PutCalls(w) == {i \in 1..Len(calls[w]) : calls[w][i].op = "put"}

\* C1: with several workers and redeliveries, every delete_message call of
\* a worker comes directly after a put_object call of the same worker for
\* the same received message that returned success; after a put that
\* raised, the next call of the worker is never the delete of that message.
C1_DeleteOnlyAfterAckedPut ==
    \A w \in Workers :
        /\ \A i \in DeleteCalls(w) :
              /\ i - 1 \in PutCalls(w)
              /\ Ok(calls[w][i - 1])
              /\ calls[w][i - 1].handle = calls[w][i].handle
        /\ \A i \in PutCalls(w) :
              ~Ok(calls[w][i]) /\ i < Len(calls[w]) => calls[w][i + 1].op # "delete"
        /\ pc[w] = "delete" => Last(calls[w]).op = "put" /\ Ok(Last(calls[w]))

\* a worker has ended an iteration on a failed put while another worker has
\* put and deleted the same message, redelivered
C1_Witness ==
    \E w, o \in Workers :
        /\ w # o
        /\ pc[w] = "sleep" /\ Last(calls[w]).op = "put" /\ ~Ok(Last(calls[w]))
        /\ \E i \in DeleteCalls(o) :
              /\ calls[o][i].handle[1] = Last(calls[w]).handle[1]
              /\ rcv[calls[o][i].handle[1]]

\* C2 as stated: a message has been deleted from the queue if and only if
\* a put of its artifact has been acknowledged.
C2_DeletedIffAcked == \A m \in MsgIds : Deleted(m) <=> acked[m] > 0

\* C2, amended: a message has been deleted from the queue only if a put of
\* its artifact has been acknowledged.
C2_DeletedOnlyIfAcked == \A m \in MsgIds : Deleted(m) => acked[m] > 0

\* a message has been deleted after a failed attempt and a redelivery
C2_Witness == \E m \in MsgIds : Deleted(m) /\ acked[m] > 0 /\ rcv[m] /\ faults > 0


Ingressed(m) == queue[m].src = "ingress"
Processing(m) == \E w \in Workers : pc[w] = "loads" /\ msg(w).ReceiptHandle[1] = m
Failed(w) == calls[w] # <<>> /\ ~Ok(Last(calls[w]))

\* C3: while the consumer keeps running, leases run out and receives return
\* the messages that stay receivable, every message enqueued by the ingress
\* is eventually put to the store with success, and every message that is
\* on the queue is eventually deleted or taken up for processing again.
C3_AtLeastOnce ==
    \A m \in SmallIds :
        /\ Ingressed(m) ~> (acked[m] > 0)
        /\ InQueue(m) ~> (Deleted(m) \/ Processing(m))

\* a message of the ingress has been persisted on a redelivery, after a
\* failed attempt
C3_Witness ==
    \E m \in MsgIds : Ingressed(m) /\ acked[m] = 1 /\ rcv[m] /\ faults > 0 /\ ~delFailed[m]


\* C4: with one worker, a message whose put succeeded and whose delete
\* failed is still on the queue as long as it has not been persisted again,
\* every acknowledged put of a message has added an artifact of its own,
\* and the message is eventually returned by a later receive and persisted
\* a second time, the store then holding two artifacts for it.
C4_RedeliveryAddsArtifact ==
    /\ [](\A m \in SmallIds :
            /\ delFailed[m] /\ acked[m] = 1 => InQueue(m)
            /\ Cardinality(Artifacts(m)) = acked[m])
    /\ \A m \in SmallIds :
          delFailed[m] ~> (rcv[m] /\ acked[m] >= 2 /\ Cardinality(Artifacts(m)) >= 2)

\* the delete of a message failed after its put, the message came back
\* and the store holds two artifacts for it
C4_Witness ==
    \E m \in SmallIds :
        /\ delFailed[m] /\ rcv[m] /\ acked[m] = 2
        /\ Cardinality(Artifacts(m)) = 2

LoadsCalls(w) == SelectSeq(calls[w], LAMBDA c : c.op = "loads")
FailedCalls(w) == {i \in 1..Len(calls[w]) : ~Ok(calls[w][i])}

\* C5: at the end of an iteration every message of the received batch has
\* been attempted (json.loads was called on it, in the order of the batch)
\* whatever failed before it, and every successful put is directly followed
\* by the delete call for the same message, which removes the message when
\* it returns.
C5_FailureDoesNotAbortBatch ==
    \A w \in Workers :
        pc[w] = "sleep" =>
            /\ Len(LoadsCalls(w)) = Len(messages[w])
            /\ \A i \in 1..Len(messages[w]) :
                  LoadsCalls(w)[i].handle = messages[w][i].ReceiptHandle
            /\ \A i \in PutCalls(w) :
                  Ok(calls[w][i]) =>
                      /\ i + 1 \in DeleteCalls(w)
                      /\ calls[w][i + 1].handle = calls[w][i].handle
                      /\ Ok(calls[w][i + 1]) => Deleted(calls[w][i].handle[1])

\* the put of the first message of a batch of two raised, and the second
\* message has been put and deleted
C5_Witness ==
    \E w \in Workers :
        /\ pc[w] = "sleep" /\ Len(messages[w]) = 2
        /\ \E i \in PutCalls(w) :
              /\ ~Ok(calls[w][i])
              /\ calls[w][i].handle = messages[w][1].ReceiptHandle
        /\ \E i \in DeleteCalls(w) :
              /\ Ok(calls[w][i])
              /\ calls[w][i].handle = messages[w][2].ReceiptHandle
              /\ Deleted(messages[w][2].ReceiptHandle[1])

\* C6: the loop is never left; an iteration whose receive failed makes no
\* other call; after a failed call the worker reaches the idle delay, from
\* the idle delay it comes back to the head of the loop, and from there it
\* issues another receive.
C6_LoopNeverTerminates ==
    /\ [](\A w \in Workers :
            /\ pc[w] # "crashed"
            /\ calls[w] # <<>> /\ ~Ok(calls[w][1]) =>
                  /\ Len(calls[w]) = 1
                  /\ pc[w] = "sleep")
    /\ Failed("w1") ~> (pc["w1"] = "sleep")
    /\ (pc["w1"] = "sleep") ~> (pc["w1"] = "receive")
    /\ (pc["w1"] = "receive") ~> (calls["w1"] # <<>> /\ calls["w1"][1].op = "receive")

\* a receive has failed, the worker is at the idle delay
C6_Witness ==
    /\ pc["w1"] = "sleep"
    /\ calls["w1"] = <<ReceiveCall(0, "ClientError")>>
    /\ Visible # {}

CallsFor(w, m) == {i \in 1..Len(calls[w]) : calls[w][i].handle # NoHandle /\ calls[w][i].handle[1] = m}

\* C7: a message whose body is not JSON is never put and never deleted: no
\* worker issues a put or a delete for it, the store holds no artifact of
\* it, and it stays on the queue, receivable or leased.
C7_MalformedStaysQueued ==
    \A m \in MsgIds :
        Malformed(m) =>
            /\ InQueue(m)
            /\ acked[m] = 0
            /\ Artifacts(m) = {}
            /\ \A w \in Workers : \A i \in CallsFor(w, m) :
                  /\ calls[w][i].op = "loads"
                  /\ ~Ok(calls[w][i])

\* a message that is not JSON has been received, skipped, and, its lease
\* run out, received again
C7_Witness ==
    \E m \in MsgIds :
        /\ Malformed(m) /\ ~json_loads(queue[m].Body).ok /\ rcv[m]
        /\ \E w \in Workers : pc[w] = "sleep" /\ CallsFor(w, m) # {}

\* C8: an iteration that received N messages, all of them JSON, and in
\* which no call failed, has made after the receive exactly the calls
\* json.loads, put_object, delete_message for each message in turn, the
\* put with the parsed body of that message and the delete with its
\* receipt handle: N puts and N deletes.
C8_OnePutOneDeletePerMessage ==
    \A w \in Workers :
        LET N == Len(messages[w]) IN
        (/\ pc[w] = "sleep"
         /\ N > 0
         /\ \A i \in 1..N : json_loads(messages[w][i].Body).ok
         /\ FailedCalls(w) = {})
        =>
            /\ Len(calls[w]) = 1 + 3 * N
            /\ Cardinality(PutCalls(w)) = N
            /\ Cardinality(DeleteCalls(w)) = N
            /\ \A i \in 1..N :
                  /\ calls[w][3 * i].op = "put"
                  /\ calls[w][3 * i].body = json_loads(messages[w][i].Body).val
                  /\ calls[w][3 * i].handle = messages[w][i].ReceiptHandle
                  /\ calls[w][3 * i + 1].op = "delete"
                  /\ calls[w][3 * i + 1].handle = messages[w][i].ReceiptHandle

\* a batch of two messages has been processed without a failure
C8_Witness ==
    \E w \in Workers :
        /\ pc[w] = "sleep" /\ Len(messages[w]) = 2 /\ FailedCalls(w) = {}
        /\ Cardinality(DeleteCalls(w)) = 2
        /\ messages[w][1].ReceiptHandle # messages[w][2].ReceiptHandle

\* the receive call of line 41 that returned n messages
ReceiveSpied(n) == Call("receive", <<10, 5, 30, n>>, NoHandle, PyNone, 0, "")

\* C9: the receive is called with at most 10 messages, a wait of 5 s and a
\* lease of 30 s; the step in which it returns no message leaves the queue
\* and the store as they are and takes the worker to the idle delay, and
\* the iteration has made no other call when it gets there.
C9_EmptyBatch ==
    /\ [][\A w \in Workers :
            pc[w] = "receive" /\ calls'[w] = <<ReceiveSpied(0)>> =>
                /\ pc'[w] = "sleep"
                /\ UNCHANGED <<queue, store>>]_vars
    /\ [](\A w \in Workers :
            calls[w] # <<>> =>
                /\ \E n \in 0..MaxNumberOfMessages, e \in BotoErrors \cup {""} :
                      calls[w][1] = [ReceiveSpied(n) EXCEPT !.exc = e]
                /\ calls[w][1] = ReceiveSpied(0) => calls[w] = <<ReceiveSpied(0)>>)

\* a receive has returned no message while a message was leased
C9_Witness ==
    \E w \in Workers :
        /\ pc[w] = "sleep" /\ calls[w] = <<ReceiveSpied(0)>>
        /\ \E m \in MsgIds : queue[m].status = "inflight"

HasField(x, k) == x.type = "dict" /\ \E i \in 1..Len(x.items) : x.items[i].key = k
Field(x, k) == x.items[CHOOSE i \in 1..Len(x.items) : x.items[i].key = k].val
WrongToken(req) ==
    /\ req.ok
    /\ HasField(req.json, "token") /\ HasField(req.json, "data")
    /\ Field(req.json, "token") # AUTH_TOKEN

\* C10: the response to a submission (an object with a token and a data)
\* whose token is not the configured token is 401 {"error": "Unauthorized"}
\* and send_message has not been called, whatever data is.
C10_WrongTokenUnauthorized ==
    WrongToken(http.req) =>
        /\ http.resp = Resp(401, "error", "Unauthorized")
        /\ http.sends = 0
        /\ http.sent = <<>>

\* a submission with the wrong token and a data that is not an object
C10_Witness ==
    /\ WrongToken(http.req)
    /\ Field(http.req.json, "data").type # "dict"
    /\ http.resp.code = 401

Authorized(req) ==
    /\ req.ok
    /\ HasField(req.json, "token") /\ HasField(req.json, "data")
    /\ Field(req.json, "token") = AUTH_TOKEN
Data(req) == Field(req.json, "data")
NoEnqueue == http.sends = 0 /\ http.sent = <<>>

\* C11: the response to a JSON body that is not an object with both a
\* token and a data field is 400 {"error": "Invalid request format"}, and
\* send_message has not been called.
C11_InvalidFormat400 ==
    (http.req.ok /\ ~(HasField(http.req.json, "token") /\ HasField(http.req.json, "data")))
    => (http.resp = Resp(400, "error", "Invalid request format") /\ NoEnqueue)

\* an email_timestamp that is not an integer, or not a point in time
InvalidStamp(x) ==
    \/ x.type \in {"NoneType", "list", "dict", "float"}
    \/ x.type = "str" /\ x.v \notin IntLiterals
    \/ x.type = "int" /\ x.v \in {"999999999999", "99999999999999999999"}

\* C12: the response to an authorized submission whose email_timestamp is
\* a non-numeric string, null, a list or an object, a fractional number or
\* not a constructible point in time is 400 {"error": "Invalid
\* email_timestamp"}, and send_message has not been called.
C12_InvalidTimestamp400 ==
    (/\ Authorized(http.req)
     /\ HasField(Data(http.req), "email_timestamp")
     /\ InvalidStamp(Field(Data(http.req), "email_timestamp")))
    => (http.resp = Resp(400, "error", "Invalid email_timestamp") /\ NoEnqueue)

\* C13: the response to an authorized submission whose data is not an
\* object with an email_timestamp field is 400 {"error": "Missing
\* email_timestamp"}, and send_message has not been called.
C13_MissingTimestamp400 ==
    (Authorized(http.req) /\ ~HasField(Data(http.req), "email_timestamp"))
    => (http.resp = Resp(400, "error", "Missing email_timestamp") /\ NoEnqueue)

\* an email_timestamp the ingress is to accept: an integer, or its decimal
\* writing, that is a point in time
ValidStamp(x) ==
    /\ x.type \in {"int", "str"}
    /\ x.v \in IntLiterals \ {"999999999999", "99999999999999999999"}
Valid(req) ==
    /\ Authorized(req)
    /\ HasField(Data(req), "email_timestamp")
    /\ ValidStamp(Field(Data(req), "email_timestamp"))
Sent200 == Resp(200, "status", "Message sent to SQS")

\* C14: the handling of an authorized submission with a valid
\* email_timestamp makes exactly one send_message call, whose body is
\* json.dumps of the submitted data, every field as submitted; the step in
\* which the message enters the queue answers 200 {"status": "Message sent
\* to SQS"}, and a 200 is answered only with the message on the queue.
C14_ValidEnqueuedOnce ==
    /\ [](Valid(http.req) =>
            /\ http.sends = 1
            /\ http.sent = json_dumps(Data(http.req))
            /\ json_loads(http.sent) = [ok |-> TRUE, val |-> Data(http.req)]
            /\ http.resp = Sent200 =>
                  \E m \in MsgIds : Ingressed(m) /\ queue[m].Body = http.sent)
    /\ [][Valid(http'.req) /\ queue' # queue => http'.resp = Sent200]_vars

\* a submission whose data has another field beside the timestamp, given
\* as a string, has been answered 200
C14_Witness ==
    /\ Valid(http.req)
    /\ http.resp = Sent200
    /\ \E d \in {Data(http.req)} :
          /\ Len(d.items) = 2
          /\ Field(d, "email_timestamp").type = "str"

\* C15: a request whose send_message call raises is answered 500 with the
\* text of the exception as error, after that one call, the queue left as
\* it was.
C15_EnqueueFailure500 ==
    [][\A e \in SendErrors \ {""} :
          receive_message(http'.req, e) =>
              /\ http' = Http(http'.req, Resp(500, "error", e), 1, json_dumps(Data(http'.req)))
              /\ queue' = queue]_vars

\* the send of a valid submission has failed
C15_Witness ==
    /\ Valid(http.req)
    /\ http.resp = Resp(500, "error", "ClientError")
    /\ http.sends = 1

\* C16: the body enqueued for an accepted submission deserializes to the
\* submitted data, the body of every artifact deserializes to what the
\* body of its message deserializes to, and so the artifact written for
\* the message of the latest accepted submission deserializes to an object
\* equal to the data of that submission.
C16_RoundTrip ==
    /\ [][\A m \in MsgIds :
            queue[m].status = "none" /\ queue'[m].status # "none" =>
                json_loads(queue'[m].Body) = [ok |-> TRUE, val |-> Data(http'.req)]]_vars
    /\ [](\A k \in DOMAIN store :
            /\ json_loads(store[k].Body) = json_loads(queue[store[k].m].Body)
            /\ queue[store[k].m].Body = http.sent /\ http.resp = Sent200 =>
                  json_loads(store[k].Body) = [ok |-> TRUE, val |-> Data(http.req)])

\* the artifact of a submission with a textual timestamp and another field
\* is in the store
C16_Witness ==
    \E k \in DOMAIN store :
        /\ http.resp = Sent200 /\ queue[store[k].m].Body = http.sent
        /\ Len(Data(http.req).items) = 2
        /\ Field(Data(http.req), "email_timestamp").type = "str"
        /\ json_loads(store[k].Body).val = Data(http.req)

\* C17: every process_message call (one after each json.loads that
\* returned) makes exactly one put_object call, for the message it was
\* given, under the key built from the clock at the moment of the call;
\* after a put that raised, the worker makes no other put and no delete
\* for that message: its next call is the json.loads of the next message.
C17_OnePutPerProcessMessage ==
    /\ [](\A w \in Workers : \A i \in 1..Len(calls[w]) :
            /\ calls[w][i].op = "loads" /\ Ok(calls[w][i]) =>
                  /\ i < Len(calls[w]) =>
                        /\ calls[w][i + 1].op = "put"
                        /\ calls[w][i + 1].handle = calls[w][i].handle
                        /\ calls[w][i + 1].key \in 1..now
                  /\ i + 1 < Len(calls[w]) => calls[w][i + 2].op # "put"
            /\ calls[w][i].op = "put" =>
                  /\ calls[w][i - 1].op = "loads" /\ Ok(calls[w][i - 1])
                  /\ ~Ok(calls[w][i]) /\ i < Len(calls[w]) =>
                        /\ calls[w][i + 1].op = "loads"
                        /\ calls[w][i + 1].handle # calls[w][i].handle)
    /\ [][\A w \in Workers :
            pc[w] = "utcnow" /\ pc'[w] = "put" => s3_key'[w] = now]_vars

\* in a batch of two, the put of the first message returned and the put of
\* the second raised, under a later key
C17_Witness ==
    \E w \in Workers :
        /\ pc[w] = "sleep"
        /\ \E i, j \in PutCalls(w) :
              /\ i < j
              /\ Ok(calls[w][i]) /\ ~Ok(calls[w][j])
              /\ calls[w][i].key < calls[w][j].key
              /\ Last(calls[w]) = calls[w][j]

Missing(e, required) == required \ e # {}

\* C18: a consumer started without SQS_QUEUE_URL or S3_BUCKET_NAME stops
\* before any receive, and an ingress started without SQS_QUEUE_URL stops
\* before serving any request: neither a poll nor a request ever meets
\* the missing value.
C18_MissingConfigFatal ==
    /\ Missing(env.consumer, ConsumerEnv) =>
          \A w \in Workers : pc[w] \in {"startup", "exited"} /\ calls[w] = <<>>
    /\ Missing(env.producer, ProducerEnv) =>
          app = "startup" /\ http.resp = NoResp

\* C19: the serving ingress can handle every request, with every outcome
\* of the send when it gets to the send, and the handling of a request
\* leaves exactly one response, of status 200, 400, 401 or 500; an
\* exception raised before the send or by the send is answered 500 with
\* the text of the exception as error, and 500 is answered for nothing
\* else.
C19_HandlerTotal ==
    /\ [](app = "serving" /\ http.resp = NoResp =>
            \A req \in Requests :
                /\ ENABLED receive_message(req, "")
                /\ Validate(req).kind = "send" =>
                      \A e \in SendErrors : ENABLED receive_message(req, e))
    /\ [][http' # http =>
            LET v == Validate(http'.req) IN
            /\ http'.resp.code \in {200, 400, 401, 500}
            /\ v.kind = "raise" => http'.resp = Resp(500, "error", v.exc)
            /\ v.kind = "return" => http'.resp = v.resp /\ v.resp.code \in {400, 401}
            /\ v.kind = "send" =>
                  \/ http'.resp = Sent200
                  \/ \E e \in SendErrors \ {""} : http'.resp = Resp(500, "error", e)]_vars

\* a body that is a JSON number has been answered 500 with the TypeError
C19_Witness ==
    /\ http.req.ok /\ http.req.json.type = "int"
    /\ http.resp = Resp(500, "error", "TypeError")

\* C20: the counter of messages sent equals the number of messages the
\* ingress has put on the queue, and the counter of unauthorized attempts
\* goes up by one with every 401 response and with nothing else.
C20_CountersReflectTraffic ==
    /\ [](SQS_MESSAGES_SENT = Cardinality({m \in MsgIds : Ingressed(m)}))
    /\ [][UNAUTHORIZED_ACCESS_COUNT' =
            UNAUTHORIZED_ACCESS_COUNT
              + (IF http' # http /\ http'.resp.code = 401 THEN 1 ELSE 0)]_vars

IsObject(req) == req.ok /\ req.json.type = "dict"
FormatOk(req) == HasField(req.json, "token") /\ HasField(req.json, "data")
Unauthorized401 == Resp(401, "error", "Unauthorized")
InvalidFormat400 == Resp(400, "error", "Invalid request format")
MissingStamp400 == Resp(400, "error", "Missing email_timestamp")
InvalidStamp400 == Resp(400, "error", "Invalid email_timestamp")

\* C21: for a body that is an object, the rules are applied in the order
\* format, token, presence of the timestamp, validity of the timestamp, and
\* the first that fails decides: without token or data the response is 400
\* invalid format whatever the token; with both and a wrong token it is
\* 401 whatever data holds; the response about a missing timestamp is
\* given only after the token was found right, and the response about an
\* invalid timestamp only after the timestamp was found present.
C21_FirstFailingRuleWins ==
    IsObject(http.req) /\ http.resp # NoResp =>
        /\ ~FormatOk(http.req) => http.resp = InvalidFormat400
        /\ FormatOk(http.req) /\ Field(http.req.json, "token") # AUTH_TOKEN =>
              http.resp = Unauthorized401
        /\ http.resp = Unauthorized401 => FormatOk(http.req)
        /\ http.resp = MissingStamp400 =>
              Authorized(http.req) /\ ~HasField(Data(http.req), "email_timestamp")
        /\ Authorized(http.req) /\ Data(http.req).type = "dict"
             /\ ~HasField(Data(http.req), "email_timestamp") => http.resp = MissingStamp400
        /\ http.resp = InvalidStamp400 =>
              Authorized(http.req) /\ HasField(Data(http.req), "email_timestamp")

\* a submission with a wrong token and no email_timestamp has been answered
\* 401
C21_Witness ==
    /\ IsObject(http.req) /\ FormatOk(http.req)
    /\ Field(http.req.json, "token") # AUTH_TOKEN
    /\ Data(http.req).type = "dict" /\ ~HasField(Data(http.req), "email_timestamp")
    /\ http.resp = Unauthorized401

\* the place in the batch of the message with handle h
Pos(w, h) == CHOOSE i \in 1..Len(messages[w]) : messages[w][i].ReceiptHandle = h
\* the call ends the processing of its message
Ends(c) == c.op = "delete" \/ ~Ok(c)

\* C22: in an iteration of a worker the only receive call is the first
\* call; the calls that follow go through the messages in the order of the
\* batch, json.loads, put, delete for each; the first call for a message
\* comes directly after the delete, or the failed call, of the message
\* before it; and the worker is back at the receive only with the whole
\* batch behind it.
C22_SequentialInOrder ==
    \A w \in Workers :
        /\ \A i \in 2..Len(calls[w]) :
              /\ calls[w][i].op # "receive"
              /\ \E k \in 1..Len(messages[w]) : messages[w][k].ReceiptHandle = calls[w][i].handle
        /\ \A i, j \in 2..Len(calls[w]) :
              i < j => Pos(w, calls[w][i].handle) <= Pos(w, calls[w][j].handle)
        /\ \A j \in 2..Len(calls[w]) :
              LET k == Pos(w, calls[w][j].handle) IN
              /\ calls[w][j].op = "loads" =>
                    IF k = 1 THEN j = 2
                    ELSE /\ calls[w][j - 1].handle = messages[w][k - 1].ReceiptHandle
                         /\ Ends(calls[w][j - 1])
              /\ calls[w][j].op = "put" =>
                    calls[w][j - 1].op = "loads" /\ calls[w][j - 1].handle = calls[w][j].handle
              /\ calls[w][j].op = "delete" =>
                    calls[w][j - 1].op = "put" /\ calls[w][j - 1].handle = calls[w][j].handle
        /\ pc[w] \in {"loads", "utcnow", "put", "delete"} =>
              /\ idx[w] \in 1..Len(messages[w])
              /\ calls[w][1].op = "receive"
        /\ pc[w] = "sleep" /\ messages[w] # <<>> =>
              /\ idx[w] = Len(messages[w])
              /\ Last(calls[w]).handle = Last(messages[w]).ReceiptHandle
              /\ Ends(Last(calls[w]))
        /\ pc[w] = "receive" => messages[w] = <<>> /\ calls[w] = <<>>

\* the delete of the first message of a batch of two has failed, and the
\* worker has put the second and is about to delete it
C22_Witness ==
    \E w \in Workers :
        /\ pc[w] = "delete" /\ idx[w] = 2
        /\ Len(calls[w]) = 6
        /\ calls[w][4].op = "delete" /\ ~Ok(calls[w][4])
        /\ calls[w][6].op = "put" /\ Ok(calls[w][6])

RECURSIVE Sum(_, _)
Sum(f, S) == IF S = {} THEN 0 ELSE LET x == CHOOSE y \in S : TRUE IN f[x] + Sum(f, S \ {x})

\* C23: with several workers, no put writes under a key that is already in
\* the store, and the number of artifacts in the store is the number of
\* acknowledged puts.
C23_KeysDistinct ==
    /\ [](Cardinality(DOMAIN store) = Sum(acked, MsgIds))
    /\ [][\A w \in Workers :
            pc[w] = "put" /\ pc'[w] = "delete" => s3_key[w] \notin DOMAIN store]_vars

\* no running worker is busy with a batch that holds m
Abandoned(m) == queue[m].status = "inflight" /\ \A w \in Workers : ~Pending(w, m)

\* C24: with several workers that stop and start again at any moment, a
\* message is deleted only after an acknowledged put of it; the stop of a
\* worker changes neither the queue nor the store; the lease of a message
\* left behind can run out; a message that is receivable can be returned
\* to any worker at its receive, a worker at its put while another one is
\* stopped can put, and a worker at its delete can delete.
C24_CrashSafe ==
    /\ [](\A m \in MsgIds :
            /\ Deleted(m) => acked[m] > 0
            /\ Abandoned(m) => ENABLED Expire(m))
    /\ [](\A w \in Workers :
            /\ pc[w] = "receive" => \A m \in Visible : ENABLED ReceiveOk(w, <<m>>, TRUE)
            /\ pc[w] = "put" /\ (\E o \in Workers : pc[o] = "stopped") => ENABLED PutOk(w)
            /\ pc[w] = "delete" => ENABLED DeleteOk(w))
    /\ [][\A w \in Workers :
            pc[w] # "stopped" /\ pc'[w] = "stopped" =>
                /\ UNCHANGED <<queue, store, acked>>
                /\ \A m \in MsgIds : Pending(w, m) /\ ~Deleted(m)
                      => queue'[m].status \in {"visible", "inflight"}]_vars

\* a worker stopped between the put and the delete of a message and is
\* still stopped (its stop is the only fault of the run); the message came
\* back, another worker has put it a second time and deleted it
C24_Witness ==
    \E m \in MsgIds :
        /\ Deleted(m) /\ acked[m] = 2 /\ rcv[m]
        /\ faults = 1
        /\ \E w \in Workers : pc[w] = "stopped"

\* C25: while the consumer keeps running, leases run out and receives return
\* the messages that stay receivable, a message whose body is not JSON is
\* never put and never deleted, from any moment on it is eventually taken
\* up for processing once more as a redelivery, and every message of the
\* ingress is eventually put with success and deleted.
C25_PoisonLoops ==
    /\ [](\A m \in MsgIds :
            Malformed(m) => InQueue(m) /\ acked[m] = 0 /\ Artifacts(m) = {})
    /\ \A m \in MsgIds :
          (Malformed(m) \/ Ingressed(m)) ~>
              IF Malformed(m) THEN Processing(m) /\ rcv[m]
              ELSE Deleted(m) /\ acked[m] > 0

\* a message that is not JSON is being processed once more after it came
\* back, while a message of the ingress that was enqueued after it has been
\* put and deleted
C25_Witness ==
    \E m, k \in MsgIds :
        /\ m < k
        /\ Malformed(m) /\ rcv[m] /\ Processing(m)
        /\ Ingressed(k) /\ Deleted(k) /\ acked[k] > 0

\* two dicts with the same keys and the same value under each key
SameObject(x, y) ==
    /\ x.type = "dict" /\ y.type = "dict"
    /\ Len(x.items) = Len(y.items)
    /\ {x.items[i] : i \in 1..Len(x.items)} = {y.items[i] : i \in 1..Len(y.items)}

\* C26: two accepted submissions, one after the other, whose data are equal
\* as objects are enqueued with the same body.
C26_CanonicalBody ==
    [][(/\ http.resp = Sent200 /\ http'.resp = Sent200
        /\ queue' # queue
        /\ SameObject(Data(http.req), Data(http'.req)))
       => http'.sent = http.sent]_vars

\* the messages of the ingress that enter the queue in a step
Entering == {m \in MsgIds : queue[m].status = "none" /\ queue'[m].status = "visible"
                              /\ queue'[m].src = "ingress"}

\* C27: a request is answered 200 exactly when its send_message call
\* returned, that is when one message entered the queue in the handling of
\* the request; a request whose send_message call raised, or that made no
\* call, is answered with another status and leaves the queue as it was.
C27_OkIffEnqueued ==
    [][/\ http'.resp.code = 200 <=> Cardinality(Entering) = 1
       /\ http'.resp.code = 200 => http'.resp = Sent200 /\ http'.sends = 1
       /\ http'.resp.code # 200 => queue' = queue]_vars

\* a request has been answered 200 with its message on the queue, and the
\* send_message call of the next one has raised: it is answered 500 and
\* the queue holds the one message
C27_Witness ==
    /\ http.resp = Resp(500, "error", "ClientError")
    /\ http.sends = 1
    /\ Cardinality({m \in MsgIds : InQueue(m) /\ Ingressed(m)}) = 1

\* an email_timestamp that goes through lines 59-61
Checked(x) == int(x).exc = "" /\ fromtimestamp(int(x).val).exc = ""

\* C28: every message that enters the queue from the ingress does so in the
\* handling of a request whose token is AUTH_TOKEN and whose data is an
\* object with an email_timestamp that int() and fromtimestamp() accept,
\* and its body is the serialization of that data; and every message of the
\* ingress on the queue holds an email_timestamp that they accept.
C28_OnlyCheckedBodies ==
    /\ [][\A m \in Entering :
            /\ Authorized(http'.req)
            /\ HasField(Data(http'.req), "email_timestamp")
            /\ Checked(Field(Data(http'.req), "email_timestamp"))
            /\ queue'[m].Body = json_dumps(Data(http'.req))]_vars
    /\ [](\A m \in MsgIds : InQueue(m) /\ Ingressed(m) =>
            LET d == json_loads(queue[m].Body) IN
            /\ d.ok
            /\ HasField(d.val, "email_timestamp")
            /\ Checked(Field(d.val, "email_timestamp")))

\* the queue holds two messages of the ingress with different bodies, the
\* last one from a request with a textual timestamp
C28_Witness ==
    /\ http.resp = Sent200
    /\ Field(Data(http.req), "email_timestamp").type = "str"
    /\ \E m, k \in MsgIds :
          /\ InQueue(m) /\ InQueue(k)
          /\ Ingressed(m) /\ Ingressed(k)
          /\ queue[m].Body # queue[k].Body

====
